---------------------------- MODULE Spec2Model ----------------------------
(***************************************************************************)
(* start_sdk/cf_r2.py: CFR2 (pydantic BaseSettings holding the Cloudflare  *)
(* R2 credentials) and CFR2_Bucket (CFR2 plus a bucket name, with upload   *)
(* and download).  The local filesystem, the process environment, the     *)
(* .env file and the remote object store are the state the two classes     *)
(* read and write; boto3 is the collaborator behind resource(),            *)
(* Bucket(), upload_fileobj() and download_fileobj().                      *)
(***************************************************************************)
EXTENDS Naturals, Sequences, FiniteSets, TLC

VARIABLES
    environ,         \* os.environ: partial map  variable name -> value
    dotenv,          \* the ".env" file: NoDotenv, or a partial map
    ctor,            \* per object: the keyword arguments of its constructor
    fields,          \* per object: region, acct, key, token, name
    nassign,         \* field assignments made so far
    uploadDefaults,  \* the dict object bound to upload's default `args`
    files,           \* local filesystem: partial map  path -> bytes
    store,           \* remote: bucket reference -> partial map  key -> bytes
    pc,              \* position of the (single, synchronous) caller
    cur,             \* the call in progress
    fh,              \* local file handles currently open
    nopen,           \* open() calls made, this call
    bkt,             \* the bucket reference obtained for this call
    built,           \* boto3.resource() calls made, this call
    xfers,           \* transfer calls issued to the SDK, this call
    result,          \* what the call returns or raises
    pre,             \* files and store as they were when the call began
    sent             \* history: per remote key, the source file's bytes at
                     \* the last upload that succeeded

vars == <<environ, dotenv, ctor, fields, nassign, uploadDefaults, files,
          store, pc, cur, fh, nopen, bkt, built, xfers, result, pre, sent>>

----------------------------------------------------------------------------
(* Bounds of the model.                                                    *)

MaxLen == 2
MaxAssign == 1

Bytes == {0, 1}

RECURSIVE SeqsUpTo(_)
SeqsUpTo(n) ==
    IF n = 0 THEN {<< >>}
    ELSE LET S == SeqsUpTo(n - 1)
         IN  S \cup {Append(s, b) : s \in {t \in S : Len(t) = n - 1}, b \in Bytes}

Content == SeqsUpTo(MaxLen)

Objects == {"h1", "h2"}
Paths == {"a.bin", "b.bin", "ro.bin"}
ReadOnly == {"ro.bin"}
Keys == {"k1"}

Empty == [n \in {} |-> ""]
NoDotenv == [absent |-> TRUE]
NoCall == [op |-> "none"]
NoBucket == [none |-> TRUE]
Omitted == [omitted |-> TRUE]
NoResult == [status |-> "none"]
NoPre == [none |-> TRUE]

----------------------------------------------------------------------------
(* CFR2: the settings fields and how pydantic fills them.                  *)

SettingsFields == {"region", "acct", "key", "token"}
AllFields == SettingsFields \cup {"name"}

Defaults == [region |-> "apac", acct |-> "ACT", key |-> "ABC", token |-> "XYZ"]

EnvName == [region |-> "CF_R2_REGION", acct |-> "CF_R2_ACCT_ID",
            key |-> "AWS_ACCESS_KEY_ID", token |-> "AWS_SECRET_ACCESS_KEY"]

\* Config.env_file = ".env": a missing file reads as no variables.
ReadEnvFile(file) == IF file = NoDotenv THEN Empty ELSE file

\* Variant: the .env file read over the process environment.
EnvSettings_FileFirst(env, file) ==
    LET env_vars == ReadEnvFile(file) @@ env
    IN  [f \in {g \in SettingsFields : EnvName[g] \in DOMAIN env_vars}
            |-> env_vars[EnvName[f]]]

\* BaseSettings: the .env variables are the fallback of the process
\* environment ({**dotenv_vars, **env_vars}); each field takes the value of
\* its env name when that name is set.
EnvSettings(env, file) ==
    LET env_vars == env @@ ReadEnvFile(file)
    IN  [f \in {g \in SettingsFields : EnvName[g] \in DOMAIN env_vars}
            |-> env_vars[EnvName[f]]]

\* BaseSettings._build_values: init kwargs over the environment settings;
\* the field defaults fill what is left.
BuildValues(kw, env, file) == (kw @@ EnvSettings(env, file)) @@ Defaults

\* CFR2.endpoint_url
endpoint_url(o) == "https://" \o o.acct \o ".r2.cloudflarestorage.com"

\* What boto3.resource("s3", ...) is given by CFR2.resource
ResourceConfig(o) ==
    [endpoint_url |-> endpoint_url(o), aws_access_key_id |-> o.key,
     aws_secret_access_key |-> o.token, region_name |-> o.region]

\* Variant: the resource built once, from the fields as constructed, and
\* kept (a cached property).
resource_Cached(o) ==
    ResourceConfig(BuildValues(ctor[CHOOSE h \in DOMAIN ctor : fields[h] = o],
                               environ, dotenv))

\* CFR2.resource: a new boto3 resource from the fields as they are now.
resource(o) == ResourceConfig(o)

\* CFR2.get_bucket: resource.Bucket(bucket_name), a reference; no round trip.
get_bucket(o, bucket_name) == [client |-> resource(o), name |-> bucket_name]

\* CFR2_Bucket.bucket
bucket(o) == get_bucket(o, o.name)

\* The remote bucket a reference addresses: the account's endpoint and the
\* bucket name.
RefOf(b) == <<b.client.endpoint_url, b.name>>


----------------------------------------------------------------------------
(* The values the callers and the surroundings supply.                     *)

EnvValue(n) == "env-" \o n
FileValue(n) == "file-" \o n
KwValue(f) == "kw-" \o f
AssignValues == {"other"}
BucketNames == {"test"}

EnvNames == {EnvName[f] : f \in SettingsFields}
EnvOf(S) == [n \in S |-> EnvValue(n)]
FileOf(S) == [n \in S |-> FileValue(n)]
KwOf(S, nm) == [f \in S \cup {"name"} |-> IF f = "name" THEN nm ELSE KwValue(f)]

EnvChoices ==
    {EnvOf({}), EnvOf({"CF_R2_ACCT_ID", "CF_R2_REGION"})}
DotenvChoices ==
    {NoDotenv, FileOf({"CF_R2_ACCT_ID", "AWS_ACCESS_KEY_ID"}), FileOf(EnvNames)}
KwChoices ==
    {KwOf({}, "test"), KwOf({"acct", "token"}, "test")}

ArgChoices == {[ContentType |-> "text/plain"],
               [ContentType |-> "text/plain", ACL |-> "public-read"]}
AssignTargets == {"h1"}

Accts == {Defaults.acct, EnvValue(EnvName.acct), FileValue(EnvName.acct),
          KwValue("acct")} \cup AssignValues
AllRefs == {<<endpoint_url([acct |-> a]), n>> :
                a \in Accts, n \in BucketNames \cup AssignValues}
MainRef == <<endpoint_url(Defaults), "test">>

\* Errors.  The SDK's errors are boto3's; the two local ones are open()'s.
TransportErrors == {"EndpointConnectionError"}
NotFound == "ClientError(404)"
ConstructionError == "ValueError(Invalid endpoint)"
SdkErrors == TransportErrors \cup {NotFound, ConstructionError}

Return(v) == [status |-> "returned", value |-> v]
Raise(e) == [status |-> "raised", error |-> e]

RECURSIVE Prefixes(_)
Prefixes(s) ==
    IF s = << >> THEN {<< >>}
    ELSE {s} \cup Prefixes(SubSeq(s, 1, Len(s) - 1))

----------------------------------------------------------------------------
(* The pieces of CFR2_Bucket.upload and CFR2_Bucket.download.              *)

\* Variant: a content type filled in when no args are given.
BindArgs_Fill(passed, defaults) ==
    IF passed = Omitted THEN [ContentType |-> "binary/octet-stream"] ELSE passed

\* Python binds the default of `args` when the argument is omitted: the one
\* dict object made when the function was defined.  Neither upload nor
\* upload_fileobj writes to the mapping, so uploadDefaults stays as it was.
BindArgs(passed, defaults) == IF passed = Omitted THEN defaults ELSE passed

\* Variant: opened "ab+", which creates a missing file.
OpenForRead_Creates(fs, path) ==
    [ok |-> TRUE, error |-> "", fs |-> IF path \in DOMAIN fs THEN fs
                                       ELSE (path :> << >>) @@ fs]

\* open(file_like, "rb"): fails when the path does not exist; never changes
\* the filesystem.
OpenForRead(fs, path) ==
    IF path \in DOMAIN fs
    THEN [ok |-> TRUE, error |-> "", fs |-> fs]
    ELSE [ok |-> FALSE, error |-> "FileNotFoundError", fs |-> fs]

\* Variant: opened "ab", which keeps what the file held.
OpenForWrite_Append(fs, path) ==
    IF path \in ReadOnly
    THEN [ok |-> FALSE, error |-> "PermissionError", fs |-> fs]
    ELSE [ok |-> TRUE, error |-> "",
          fs |-> IF path \in DOMAIN fs THEN fs ELSE (path :> << >>) @@ fs]

\* open(local_file, "wb"): creates the file or truncates it to nothing;
\* fails on a path that cannot be written.
OpenForWrite(fs, path) ==
    IF path \in ReadOnly
    THEN [ok |-> FALSE, error |-> "PermissionError", fs |-> fs]
    ELSE [ok |-> TRUE, error |-> "", fs |-> (path :> << >>) @@ fs]

\* Variant: the handle read after its first byte was consumed.
ReadAll_Tail(fs, path) == IF fs[path] = << >> THEN << >> ELSE Tail(fs[path])

\* What upload_fileobj reads from the handle opened "rb": all the bytes.
ReadAll(fs, path) == fs[path]

\* Variant: the handle closed on return only (no `with`, no finally).
Release_OnReturn(handles, outcome) ==
    IF outcome.status = "raised" THEN handles ELSE {}

\* Leaving the `with` block closes the handle, on return and on exception.
Release(handles, outcome) == {}

\* Variant: the SDK's error caught and re-raised as another.
Propagate_Wrapped(outcome) ==
    IF outcome.status = "raised" THEN Raise("RuntimeError") ELSE outcome

\* Variant: the SDK's error caught and dropped.
Propagate_Swallowed(outcome) ==
    IF outcome.status = "raised" THEN Return("None") ELSE outcome

\* Neither method has an except clause: what the body returned or raised is
\* what the caller gets.
Propagate(outcome) == outcome

----------------------------------------------------------------------------
(* Initial states: both objects constructed, nothing in progress.          *)

Idle ==
    /\ pc = "idle" /\ cur = NoCall /\ fh = {} /\ nopen = 0 /\ bkt = NoBucket
    /\ built = 0 /\ xfers = << >> /\ result = NoResult /\ pre = NoPre

EmptyStore == [r \in AllRefs |-> Empty]

\* Spec: the documented defaults; the local files and the remote object vary.
Init ==
    /\ environ = Empty
    /\ dotenv = NoDotenv
    /\ ctor = [h \in Objects |-> KwOf({}, "test")]
    /\ fields = [h \in Objects |-> BuildValues(ctor[h], environ, dotenv)]
    /\ nassign = 0
    /\ uploadDefaults = Empty
    /\ \E a \in Content, withB \in BOOLEAN :
          files = [p \in IF withB THEN Paths ELSE Paths \ {"b.bin"} |->
                      IF p = "a.bin" THEN a ELSE <<1>>]
    /\ \E c \in Content, withK \in BOOLEAN :
          store = IF withK THEN [EmptyStore EXCEPT ![MainRef] = ("k1" :> c)]
                  ELSE EmptyStore
    /\ sent = EmptyStore
    /\ Idle

\* SpecCfg: the environment, the .env file and the constructor's keyword
\* arguments vary; the files and the remote object are fixed.
InitCfg ==
    /\ environ \in EnvChoices
    /\ dotenv \in DotenvChoices
    /\ \E kw \in KwChoices :
          ctor = [h \in Objects |-> IF h = "h1" THEN kw ELSE KwOf({}, "test")]
    /\ fields = [h \in Objects |-> BuildValues(ctor[h], environ, dotenv)]
    /\ nassign = 0
    /\ uploadDefaults = Empty
    /\ files = [p \in Paths \ {"b.bin"} |-> <<1>>]
    /\ store = EmptyStore
    /\ sent = EmptyStore
    /\ Idle

----------------------------------------------------------------------------
(* Operations.                                                             *)

Begin(call) ==
    /\ pc = "idle"
    /\ cur' = call
    /\ pre' = [files |-> files, store |-> store]

\* obj.<field> = v: the Config of CFR2 sets neither allow_mutation = False
\* nor frozen, so pydantic stores the value.
SetField(h, f, v) ==
    /\ pc = "idle"
    /\ nassign < MaxAssign
    /\ fields' = [fields EXCEPT ![h][f] = v]
    /\ nassign' = nassign + 1
    /\ UNCHANGED <<environ, dotenv, ctor, uploadDefaults, files, store, pc,
                   cur, fh, nopen, bkt, built, xfers, result, pre, sent>>

\* Variant: the account id normalised in place when the URL is read.
EndpointUrl_Normalises(h) ==
    /\ Begin([op |-> "endpoint_url", h |-> h])
    /\ fields' = [fields EXCEPT ![h].acct = Defaults.acct]
    /\ result' = Return(endpoint_url(fields'[h]))
    /\ pc' = "done"
    /\ UNCHANGED <<environ, dotenv, ctor, nassign, uploadDefaults,
                   files, store, fh, nopen, bkt, built, xfers, sent>>

\* obj.endpoint_url
EndpointUrl(h) ==
    /\ Begin([op |-> "endpoint_url", h |-> h])
    /\ result' = Return(endpoint_url(fields[h]))
    /\ pc' = "done"
    /\ UNCHANGED <<environ, dotenv, ctor, fields, nassign, uploadDefaults,
                   files, store, fh, nopen, bkt, built, xfers, sent>>

\* boto3.resource(...) either returns a resource or raises (an endpoint or
\* region it rejects).
Construct(value) ==
    /\ built' = built + 1
    /\ \/ result' = Return(value)
       \/ result' = Raise(ConstructionError)

\* obj.resource
Resource(h) ==
    /\ Begin([op |-> "resource", h |-> h])
    /\ Construct(resource(fields[h]))
    /\ pc' = "done"
    /\ UNCHANGED <<environ, dotenv, ctor, fields, nassign, uploadDefaults,
                   files, store, fh, nopen, bkt, xfers, sent>>

\* obj.get_bucket(bucket_name)
GetBucket(h, bucket_name) ==
    /\ Begin([op |-> "get_bucket", h |-> h, name |-> bucket_name])
    /\ Construct(get_bucket(fields[h], bucket_name))
    /\ pc' = "done"
    /\ UNCHANGED <<environ, dotenv, ctor, fields, nassign, uploadDefaults,
                   files, store, fh, nopen, bkt, xfers, sent>>

\* obj.bucket
Bucket(h) ==
    /\ Begin([op |-> "bucket", h |-> h])
    /\ Construct(bucket(fields[h]))
    /\ pc' = "done"
    /\ UNCHANGED <<environ, dotenv, ctor, fields, nassign, uploadDefaults,
                   files, store, fh, nopen, bkt, xfers, sent>>

\* `with open(...) as f`: the first thing either method does.  A failed
\* open raises out of the method at once; there is nothing to close.
Open(r, mode) ==
    /\ files' = r.fs
    /\ nopen' = nopen + 1
    /\ IF r.ok
       THEN /\ fh' = fh \cup {[path |-> cur'.local, mode |-> mode]}
            /\ pc' = "body"
            /\ UNCHANGED result
       ELSE /\ result' = Raise(r.error)
            /\ pc' = "done"
            /\ UNCHANGED fh

\* obj.upload(file_like, loc[, args]), up to the body of its `with` block.
Upload(h, file_like, loc, passed) ==
    /\ Begin([op |-> "upload", h |-> h, local |-> file_like, remote |-> loc,
              passed |-> passed, args |-> BindArgs(passed, uploadDefaults)])
    /\ Open(OpenForRead(files, file_like), "rb")
    /\ UNCHANGED <<environ, dotenv, ctor, fields, nassign, uploadDefaults,
                   store, bkt, built, xfers, sent>>

\* obj.download(loc, local_file), up to the body of its `with` block.
Download(h, loc, local_file) ==
    /\ Begin([op |-> "download", h |-> h, local |-> local_file, remote |-> loc])
    /\ Open(OpenForWrite(files, local_file), "wb")
    /\ UNCHANGED <<environ, dotenv, ctor, fields, nassign, uploadDefaults,
                   store, bkt, built, xfers, sent>>

\* self.bucket raised inside the `with` block: no transfer is issued.
BucketFails ==
    /\ pc = "body"
    /\ built' = built + 1
    /\ result' = Raise(ConstructionError)
    /\ pc' = "exit"
    /\ UNCHANGED <<environ, dotenv, ctor, fields, nassign, uploadDefaults,
                   files, store, cur, fh, nopen, bkt, xfers, pre, sent>>

\* self.bucket.upload_fileobj(read_file, loc, ExtraArgs=args): the object
\* is written whole or not at all.
UploadBody ==
    /\ pc = "body" /\ cur.op = "upload"
    /\ built' = built + 1
    /\ bkt' = bucket(fields[cur.h])
    /\ LET body == ReadAll(files, cur.local)
           ref == RefOf(bkt')
       IN  \E out \in {"ok"} \cup TransportErrors :
             /\ xfers' = Append(xfers,
                           [fn |-> "upload_fileobj", Key |-> cur.remote,
                            ExtraArgs |-> cur.args, ref |-> ref, raised |-> out])
             /\ IF out = "ok"
                THEN /\ store' = [store EXCEPT ![ref] = (cur.remote :> body) @@ @]
                     /\ sent' = [sent EXCEPT ![ref] =
                                    (cur.remote :> pre.files[cur.local]) @@ @]
                     /\ result' = Return("None")
                ELSE /\ UNCHANGED <<store, sent>>
                     /\ result' = Raise(out)
    /\ pc' = "exit"
    /\ UNCHANGED <<environ, dotenv, ctor, fields, nassign, uploadDefaults,
                   files, cur, fh, nopen, pre>>

\* self.bucket.download_fileobj(loc, write_file): a missing key is refused
\* before anything is written; a transfer that breaks leaves what it had
\* written.
DownloadBody ==
    /\ pc = "body" /\ cur.op = "download"
    /\ built' = built + 1
    /\ bkt' = bucket(fields[cur.h])
    /\ LET ref == RefOf(bkt')
           present == cur.remote \in DOMAIN store[ref]
           Log(out) == Append(xfers,
                         [fn |-> "download_fileobj", Key |-> cur.remote,
                          ref |-> ref, raised |-> out])
       IN  \/ /\ present
              /\ xfers' = Log("ok")
              /\ files' = [files EXCEPT ![cur.local] = store[ref][cur.remote]]
              /\ result' = Return("None")
           \/ /\ ~present
              /\ xfers' = Log(NotFound)
              /\ files' = files
              /\ result' = Raise(NotFound)
           \/ \E e \in TransportErrors :
                 \E part \in IF present THEN Prefixes(store[ref][cur.remote])
                             ELSE {<< >>} :
                    /\ xfers' = Log(e)
                    /\ files' = [files EXCEPT ![cur.local] = part]
                    /\ result' = Raise(e)
    /\ pc' = "exit"
    /\ UNCHANGED <<environ, dotenv, ctor, fields, nassign, uploadDefaults,
                   store, cur, fh, nopen, pre, sent>>

\* The `with` block is left: the handle is closed and the outcome goes on.
Exit ==
    /\ pc = "exit"
    /\ fh' = Release(fh, result)
    /\ result' = Propagate(result)
    /\ pc' = "done"
    /\ UNCHANGED <<environ, dotenv, ctor, fields, nassign, uploadDefaults,
                   files, store, cur, nopen, bkt, built, xfers, pre, sent>>

\* The caller has the outcome; the call's locals are gone.
Finish ==
    /\ pc = "done"
    /\ pc' = "idle" /\ cur' = NoCall /\ nopen' = 0 /\ bkt' = NoBucket
    /\ built' = 0 /\ xfers' = << >> /\ result' = NoResult /\ pre' = NoPre
    /\ UNCHANGED <<environ, dotenv, ctor, fields, nassign, uploadDefaults,
                   files, store, fh, sent>>

\* What the methods of the two classes do.
Next ==
    \/ \E h \in Objects : EndpointUrl(h)
    \/ \E h \in Objects : Resource(h)
    \/ \E h \in Objects, n \in BucketNames \cup AssignValues : GetBucket(h, n)
    \/ \E h \in Objects : Bucket(h)
    \/ \E h \in Objects, p \in Paths, k \in Keys, a \in ArgChoices \cup {Omitted} :
          Upload(h, p, k, a)
    \/ \E h \in Objects, k \in Keys, p \in Paths : Download(h, k, p)
    \/ BucketFails
    \/ UploadBody
    \/ DownloadBody
    \/ Exit
    \/ Finish

\* The same, with a caller that also assigns to the fields.
NextCfg ==
    \/ Next
    \/ \E h \in AssignTargets, f \in AllFields, v \in AssignValues : SetField(h, f, v)

Spec == Init /\ [][Next]_vars
SpecCfg == InitCfg /\ [][NextCfg]_vars

----------------------------------------------------------------------------
(* Properties.                                                             *)

InUpload == cur.op = "upload"
InDownload == cur.op = "download"
OpenErrors == {"FileNotFoundError", "PermissionError"}

\* The bucket the call in progress addresses, and whether its key is there
\* when the call begins.
TargetRef == RefOf(bucket(fields[cur.h]))
KeyMissing == cur.remote \notin DOMAIN pre.store[TargetRef]

\* C1: an upload whose local path does not exist ends in FileNotFoundError,
\* and when the error is raised no client has been built, no transfer call
\* has been issued and the bucket (and the filesystem) is as it was.
C1_UploadMissingLocal ==
    (InUpload /\ cur.local \notin DOMAIN pre.files) =>
        /\ pc = "done"
        /\ result = Raise("FileNotFoundError")
        /\ built = 0 /\ xfers = << >> /\ bkt = NoBucket
        /\ store = pre.store /\ files = pre.files /\ fh = {}

C1_Witness ==
    /\ pc = "done" /\ InUpload /\ cur.local \notin DOMAIN pre.files
    /\ result.status = "raised"

\* C2 as stated: a download of a key the bucket does not hold ends in the
\* not-found error.
C2_Original ==
    (pc = "done" /\ InDownload /\ KeyMissing) => result = Raise(NotFound)

\* C2 as amended: a download of a key the bucket does not hold never returns;
\* it raises the not-found error whenever the SDK was asked and answered, and
\* otherwise the error of what failed first (the local open, the client's
\* construction, the transport).
C2_MissingKeyFails ==
    (pc = "done" /\ InDownload /\ KeyMissing) =>
        /\ result.status = "raised"
        /\ result.error \in {NotFound, "PermissionError", ConstructionError}
                              \cup TransportErrors
        /\ result.error = "PermissionError" <=> cur.local \in ReadOnly
        /\ (xfers # << >> /\ xfers[1].raised \notin TransportErrors)
              => result.error = NotFound
        /\ xfers = << >> => result.error \in {"PermissionError", ConstructionError}

C2_Witness ==
    /\ pc = "done" /\ InDownload /\ KeyMissing
    /\ result = Raise(NotFound) /\ files[cur.local] = << >>

\* C3: a call makes one open(); at most one handle is open, only while the
\* body of the `with` block runs, and none is open once the call has ended
\* or when no call is in progress.
C3_HandleScoped ==
    /\ Cardinality(fh) <= 1
    /\ pc \in {"idle", "done"} => fh = {}
    /\ pc \in {"body", "exit"} =>
          fh = {[path |-> cur.local, mode |-> IF InUpload THEN "rb" ELSE "wb"]}
    /\ (pc # "idle" /\ (InUpload \/ InDownload)) => nopen = 1
    /\ pc = "idle" => nopen = 0

C3_Witness ==
    /\ pc = "done" /\ InDownload /\ result.status = "raised"
    /\ result.error \in TransportErrors /\ nopen = 1 /\ fh = {}

\* C4: after a download that succeeds, the local file holds byte for byte
\* what the source file held at the last upload that succeeded to that key
\* of that bucket; an upload changes no local file and a download changes
\* only its target.
C4_RoundTrip ==
    /\ (pc = "done" /\ InDownload /\ result.status = "returned"
            /\ cur.remote \in DOMAIN sent[TargetRef])
          => files[cur.local] = sent[TargetRef][cur.remote]
    /\ (pc = "done" /\ InUpload /\ result.status = "returned")
          => /\ files = pre.files
             /\ store[TargetRef][cur.remote] = pre.files[cur.local]
    /\ (pc # "idle" /\ InDownload)
          => \A p \in DOMAIN pre.files \ {cur.local} :
                p \in DOMAIN files /\ files[p] = pre.files[p]

C4_Witness ==
    /\ pc = "done" /\ InDownload /\ result.status = "returned"
    /\ cur.remote \in DOMAIN sent[TargetRef]
    /\ Len(files[cur.local]) = MaxLen
    /\ cur.local \notin DOMAIN pre.files

\* C5: a call issues at most one transfer call, and when that call raises,
\* the caller gets that very error.
C5_NoRetryNoWrap ==
    /\ Len(xfers) <= 1
    /\ (pc = "done" /\ xfers # << >> /\ xfers[1].raised # "ok")
          => result = Raise(xfers[1].raised)

C5_Witness ==
    /\ pc = "done" /\ InUpload /\ Len(xfers) = 1
    /\ xfers[1].raised \in TransportErrors /\ result.status = "raised"

\* C6: the transfer call of an upload is given the caller's mapping as it
\* is, and the empty mapping when none was passed; the default stays empty.
C6_ExtraArgsVerbatim ==
    /\ uploadDefaults = Empty
    /\ (InUpload /\ xfers # << >>) =>
          xfers[1].ExtraArgs = IF cur.passed = Omitted THEN Empty ELSE cur.passed

C6_Witness ==
    /\ pc = "done" /\ InUpload /\ xfers # << >> /\ cur.passed = Omitted
    /\ cur.h = "h2" /\ result.status = "raised"
    /\ "k1" \in DOMAIN sent[MainRef]

\* C7 as stated: nothing changes the fields of an object once constructed.
C7_Original == [][fields' = fields]_vars

\* C7 as amended: no method changes a field; an assignment to a field is not
\* refused, and changes at most that field of that object.
C7_MethodsKeepFields ==
    [][/\ nassign' = nassign => fields' = fields
       /\ nassign' # nassign =>
             \E h \in Objects, f \in AllFields :
                \A g \in Objects, e \in AllFields :
                   <<g, e>> # <<h, f>> => fields'[g][e] = fields[g][e]
       /\ UNCHANGED <<ctor, environ, dotenv>>]_vars

C7_Witness ==
    /\ pc = "done" /\ InUpload /\ result.status = "returned"
    /\ fields[cur.h] = BuildValues(ctor[cur.h], environ, dotenv)
    /\ "acct" \in DOMAIN ctor[cur.h]

\* C8: each field is the constructor's keyword argument if given, else the
\* environment variable if set, else the .env entry if there is one, else
\* the default; with none of the three the fields are apac, ACT, ABC, XYZ.
C8_Precedence ==
    nassign = 0 =>
      \A h \in Objects :
        /\ \A f \in SettingsFields :
              fields[h][f] =
                 IF f \in DOMAIN ctor[h] THEN ctor[h][f]
                 ELSE IF EnvName[f] \in DOMAIN environ THEN environ[EnvName[f]]
                 ELSE IF dotenv # NoDotenv /\ EnvName[f] \in DOMAIN dotenv
                      THEN dotenv[EnvName[f]]
                 ELSE CASE f = "region" -> "apac" [] f = "acct" -> "ACT"
                        [] f = "key" -> "ABC" [] f = "token" -> "XYZ"
        /\ (environ = Empty /\ dotenv = NoDotenv /\ DOMAIN ctor[h] = {"name"})
              => fields[h] = [region |-> "apac", acct |-> "ACT", key |-> "ABC",
                              token |-> "XYZ", name |-> ctor[h].name]

C8_Witness ==
    /\ nassign = 0 /\ pc = "done"
    /\ EnvName.acct \in DOMAIN environ
    /\ dotenv # NoDotenv /\ EnvName.acct \in DOMAIN dotenv
    /\ EnvName.key \notin DOMAIN environ /\ EnvName.key \in DOMAIN dotenv
    /\ fields["h2"].acct = EnvValue(EnvName.acct)
    /\ fields["h2"].key = FileValue(EnvName.key)
    /\ fields["h1"].acct = KwValue("acct")

ExpectedClient ==
    [endpoint_url |-> "https://" \o fields[cur.h].acct \o ".r2.cloudflarestorage.com",
     aws_access_key_id |-> fields[cur.h].key,
     aws_secret_access_key |-> fields[cur.h].token,
     region_name |-> fields[cur.h].region]

\* C9 as stated: every call of resource, get_bucket, bucket, upload or
\* download builds a client.
C9_Original ==
    (pc = "done" /\ cur.op \in {"resource", "get_bucket", "bucket",
                                 "upload", "download"}) => built = 1

\* C9 as amended: endpoint_url is https://<acct>.r2.cloudflarestorage.com;
\* every call of resource, get_bucket or bucket, and every upload or download
\* whose local open succeeded, builds one client, from the fields as they are
\* at that call; an upload or download whose open fails builds none.
C9_FreshClient ==
    /\ (pc = "done" /\ cur.op = "endpoint_url") =>
          result = Return("https://" \o fields[cur.h].acct
                                     \o ".r2.cloudflarestorage.com")
    /\ (pc = "done" /\ cur.op \in {"resource", "get_bucket", "bucket"}) =>
          /\ built = 1
          /\ result.status = "returned" =>
                result.value =
                   CASE cur.op = "resource" -> ExpectedClient
                     [] cur.op = "get_bucket" ->
                           [client |-> ExpectedClient, name |-> cur.name]
                     [] cur.op = "bucket" ->
                           [client |-> ExpectedClient, name |-> fields[cur.h].name]
    /\ (InUpload \/ InDownload) =>
          /\ pc = "body" => built = 0
          /\ pc = "exit" => built = 1
          /\ pc = "done" =>
                built = IF result.status = "raised" /\ result.error \in OpenErrors
                        THEN 0 ELSE 1
          /\ bkt # NoBucket =>
                bkt = [client |-> ExpectedClient, name |-> fields[cur.h].name]
          /\ xfers # << >> =>
                xfers[1].ref = <<ExpectedClient.endpoint_url, fields[cur.h].name>>

C9_Witness ==
    /\ pc = "exit" /\ InDownload /\ bkt # NoBucket /\ nassign > 0
    /\ fields[cur.h].acct \in AssignValues
    /\ bkt.client.endpoint_url = "https://other.r2.cloudflarestorage.com"

\* C10: download opens its local file, creating or truncating it, before it
\* builds the client or issues the transfer; when it then fails, the file is
\* left holding the bytes written before the failure (none when the key is
\* missing or no transfer was issued), whatever it held before.
C10_NoCleanup ==
    InDownload =>
      /\ pc = "body" =>
            /\ cur.local \in DOMAIN files /\ files[cur.local] = << >>
            /\ built = 0 /\ xfers = << >>
      /\ (pc \in {"exit", "done"} /\ result.status = "raised"
              /\ result.error \notin OpenErrors) =>
            /\ cur.local \in DOMAIN files
            /\ files[cur.local] \in
                  IF xfers = << >> \/ KeyMissing THEN {<< >>}
                  ELSE Prefixes(pre.store[TargetRef][cur.remote])

C10_Witness ==
    /\ pc = "done" /\ InDownload /\ result.status = "raised"
    /\ cur.local \in DOMAIN pre.files /\ pre.files[cur.local] # << >>
    /\ ~KeyMissing /\ Len(pre.store[TargetRef][cur.remote]) = MaxLen
    /\ Len(files[cur.local]) = 1

=============================================================================
